---- MODULE Spec2Model ----
(***************************************************************************)
(* A model of fetch.py: the command line is expanded into host             *)
(* identifiers, every host gets one fetch_data pipeline (run in the main   *)
(* thread for a single address, in a ThreadPoolExecutor for a CIDR block   *)
(* and for the host-list file), and a pipeline tries the two endpoints in  *)
(* order and hands the first parsed HTTP 200 body to the result sink.      *)
(*                                                                         *)
(* Text is modelled by TLA+ strings where it is only built and compared    *)
(* (host identifiers, URLs, file names) and by sequences of tokens where   *)
(* it is taken apart (the host-list file, the persisted records).          *)
(***************************************************************************)
EXTENDS Integers, Sequences, FiniteSets, TLC

VARIABLES
    args,        \* argparse result: ip_input, ip_file, output
    json_error,  \* class of the exception response.json() raises on a bad body
    files,       \* working directory: file name -> content (token sequence)
    tasks,       \* every fetch_data call of the run, in dispatch order
    mainpc,      \* position of the main thread
    exc,         \* exception travelling up the main thread ("" when none)
    mainlog,     \* records logged by main, process_ip_input and read_ip_file
    exit_code,   \* process exit status (-1 while running)
    traceback    \* class of the uncaught exception printed at exit ("" when none)

vars == <<args, json_error, files, tasks, mainpc, exc, mainlog,
          exit_code, traceback>>

-----------------------------------------------------------------------------
(* Bounds of the model *)

\* Longest host-list file, in tokens (a token is a line terminator or a run
\* of other characters).
MaxFileLen == 3

\* Most fetch_data pipelines in one run.
MaxTargets == 2

-----------------------------------------------------------------------------
(* ipaddress: parsing, networks, formatting *)

NoPrefix == -1

RECURSIVE Pow2(_)
Pow2(n) == IF n = 0 THEN 1 ELSE 2 * Pow2(n - 1)

\* An --ip_input text "o1.o2. ... .on" or "o1.o2. ... .on/p", split at its
\* dots and its slash.
InputText(octets, prefix) == [given |-> TRUE, octets |-> octets, prefix |-> prefix]

NoInput == [given |-> FALSE, octets |-> <<>>, prefix |-> NoPrefix]

ValidOctets(octets) ==
    /\ Len(octets) = 4
    /\ \A i \in 1..4 : octets[i] \in 0..255

\* ipaddress.IPv4Address(text) does not raise AddressValueError.
IsIPv4Address(inp) == inp.prefix = NoPrefix /\ ValidOctets(inp.octets)

\* Faulty variant of IsIPv4Network: the octets are counted, their range is
\* not checked.
LaxNetwork(inp) ==
    /\ Len(inp.octets) = 4
    /\ inp.prefix = NoPrefix \/ inp.prefix \in 0..32

\* ipaddress.IPv4Network(text, strict=False) does not raise ValueError.
IsIPv4Network(inp) ==
    /\ ValidOctets(inp.octets)
    /\ inp.prefix = NoPrefix \/ inp.prefix \in 0..32

\* int(IPv4Address)
AddrInt(octets) ==
    ((octets[1] * 256 + octets[2]) * 256 + octets[3]) * 256 + octets[4]

\* str(IPv4Address)
AddrStr(n) ==
    ToString(n \div 16777216) \o "." \o ToString((n \div 65536) % 256) \o "."
        \o ToString((n \div 256) % 256) \o "." \o ToString(n % 256)

PrefixLen(inp) == IF inp.prefix = NoPrefix THEN 32 ELSE inp.prefix

\* strict=False: the host bits of the address are masked off.
NetworkAddress(inp) ==
    LET size == Pow2(32 - PrefixLen(inp))
        a == AddrInt(inp.octets)
    IN  a - (a % size)

BroadcastAddress(inp) == NetworkAddress(inp) + Pow2(32 - PrefixLen(inp)) - 1

\* Faulty variant of Hosts: every address of the block, its first and its
\* last included.
HostsWithEnds(inp) ==
    [i \in 1..(BroadcastAddress(inp) - NetworkAddress(inp) + 1) |->
        NetworkAddress(inp) + i - 1]

\* IPv4Network.hosts(), as a sequence of integers: every address of a /31,
\* the one address of a /32, else the addresses strictly between the
\* network and the broadcast address.
Hosts(inp) ==
    LET net == NetworkAddress(inp)
        bc == BroadcastAddress(inp)
    IN  IF PrefixLen(inp) = 31 THEN <<net, bc>>
        ELSE IF PrefixLen(inp) = 32 THEN <<AddrInt(inp.octets)>>
        ELSE [i \in 1..(bc - net - 1) |-> net + i]

-----------------------------------------------------------------------------
(* The host-list file *)

NL == "\n"

NoFile == [given |-> FALSE, exists |-> FALSE, text |-> <<>>]

RECURSIVE SplitFrom(_, _, _, _)
SplitFrom(text, i, cur, lines) ==
    IF i > Len(text)
    THEN IF cur = "" THEN lines ELSE Append(lines, cur)
    ELSE IF text[i] = NL
         THEN SplitFrom(text, i + 1, "", Append(lines, cur))
         ELSE SplitFrom(text, i + 1, cur \o text[i], lines)

\* str.splitlines()
SplitLines(text) == SplitFrom(text, 1, "", <<>>)

\* read_ip_file: every line of the file, terminators stripped.
read_ip_file(file) == SplitLines(file.text)

-----------------------------------------------------------------------------
(* Endpoints, requests and responses *)

endpoints ==
    << [url_head |-> "https://",
        url_tail |-> ":8888/restconf/data/openconfig-system:system/f5-system-health:health/f5-system-health:summary/f5-system-health:components",
        port |-> 8888],
       [url_head |-> "https://",
        url_tail |-> ":443/mgmt/tm/sys/hardware",
        port |-> 443] >>

\* endpoint["url"].format(ip_address)
Url(endpoint, ip_address) == endpoint.url_head \o ip_address \o endpoint.url_tail

HealthBody == "{\"health\": \"ok\", \"state\": \"up\"}"
HardwareBody == "{\"hw\": \"ok\"}"
HtmlBody == "<html>busy</html>"

DeviceBody(port) == IF port = 8888 THEN HealthBody ELSE HardwareBody

HttpResponse(status, body) == [kind |-> "response", status |-> status, body |-> body]
TimeoutRaised == [kind |-> "Timeout", status |-> 0, body |-> ""]
RequestError == [kind |-> "RequestException", status |-> 0, body |-> ""]

\* Every answer of requests.get the model draws from.
AnyResult ==
    {TimeoutRaised, RequestError, HttpResponse(404, HtmlBody), HttpResponse(200, HtmlBody),
     HttpResponse(200, HealthBody), HttpResponse(200, HardwareBody)}

\* What requests.get can do for one URL. A URL without a host is refused
\* by requests itself (InvalidURL, a RequestException).
Responses(endpoint, ip_address) ==
    IF ip_address = ""
    THEN {RequestError}
    ELSE {TimeoutRaised, RequestError, HttpResponse(404, HtmlBody),
          HttpResponse(200, DeviceBody(endpoint.port)), HttpResponse(200, HtmlBody)}

\* response.json(): a JSON object as its sequence of <<key, value>> pairs.
IsJson(body) == body \in {HealthBody, HardwareBody}

JsonLoads(body) ==
    IF body = HealthBody THEN << <<"health", "ok">>, <<"state", "up">> >>
    ELSE IF body = HardwareBody THEN << <<"hw", "ok">> >>
    ELSE <<>>

-----------------------------------------------------------------------------
(* The result sinks *)

FilePath(ip_address) == "response_" \o ip_address \o ".yaml"

\* The keys of the mappings of this model, in the order of sorted().
SortedKeys == <<"health", "hw", "serial", "state">>

RECURSIVE YamlEntries(_, _)
\* The "key: value" lines of the mapping for the keys from the i-th on.
YamlEntries(data, i) ==
    IF i > Len(SortedKeys) THEN ""
    ELSE LET hits == SelectSeq(data, LAMBDA e : e[1] = SortedKeys[i])
         IN  (IF hits = <<>> THEN ""
              ELSE hits[1][1] \o ": " \o hits[1][2] \o "\n")
                 \o YamlEntries(data, i + 1)

\* yaml.dump of a flat mapping of strings, as the text it writes: block
\* style, the keys sorted (sort_keys is on by default); "{}" for the empty
\* mapping.
YamlDump(data) == IF data = <<>> THEN "{}\n" ELSE YamlEntries(data, 1)

RECURSIVE JsonMembers(_)
\* The members of a JSON object, one per line, indented by four.
JsonMembers(data) ==
    IF data = <<>> THEN ""
    ELSE "    \"" \o Head(data)[1] \o "\": \"" \o Head(data)[2] \o "\""
            \o (IF Len(data) > 1 THEN ",\n" ELSE "\n")
            \o JsonMembers(Tail(data))

\* json.dumps(data, indent=4), as the text it returns.
JsonDumps(data) ==
    IF data = <<>> THEN "{}" ELSE "{\n" \o JsonMembers(data) \o "}"

\* An I/O call that does not fail, or the number of characters an output
\* gets through before the write raises: none, or a few, as on a full disk
\* or under a file size limit.
NoFailure == -1
WriteLimits == {0, 3}
PrintLimits == {0, 31}
IoOutcomes == {NoFailure} \cup WriteLimits \cup PrintLimits

\* The output is cut by the limit.
Fails(text, limit) == limit # NoFailure /\ limit < Len(text)

Prefix(text, n) == SubSeq(text, 1, n)

\* open(path, "w"): the file exists and is empty afterwards.
OpenTruncate(fs, path) ==
    [p \in DOMAIN fs \cup {path} |-> IF p = path THEN "" ELSE fs[p]]

\* Writing `text` at offset 0 of an open file, character on character:
\* what lay beyond the new text stays.
WriteAtStart(fs, path, text) ==
    [p \in DOMAIN fs \cup {path} |->
        IF p # path THEN fs[p]
        ELSE IF path \in DOMAIN fs /\ Len(fs[path]) > Len(text)
             THEN text \o SubSeq(fs[path], Len(text) + 1, Len(fs[path]))
             ELSE text]

-----------------------------------------------------------------------------
(* fetch_data: one pipeline per dispatched host *)

LogRecord(kind, ip_address, port, status) ==
    [kind |-> kind, host |-> ip_address, port |-> port, status |-> status]

Logged(task, kind, port, status) ==
    [task EXCEPT !.log = Append(@, LogRecord(kind, task.host, port, status))]

\* A call of fetch_data that has not started: submitted to a pool, or about
\* to run in the main thread.
NewTask(ip_address, pool) ==
    [host |-> ip_address, pool |-> pool, pc |-> "pending", ep |-> 0,
     log |-> <<>>, calls |-> <<>>, emits |-> <<>>, printed |-> "",
     data |-> <<>>, exc |-> ""]

\* Faulty variant of FetchStart: a host with a persisted record is not
\* probed again.
FetchStartKnownSkipped(task, fs) ==
    LET is_new_device == FilePath(task.host) \notin DOMAIN fs
    IN  IF is_new_device
        THEN [Logged(task, "NewDevice", 0, 0) EXCEPT !.pc = "request", !.ep = 1]
        ELSE [task EXCEPT !.pc = "done"]

\* Faulty variant of FetchStart: the endpoint list is walked from its end.
FetchStartAtLast(task, fs) ==
    LET is_new_device == FilePath(task.host) \notin DOMAIN fs
        noted == IF is_new_device THEN Logged(task, "NewDevice", 0, 0) ELSE task
    IN  [noted EXCEPT !.pc = "request", !.ep = Len(endpoints)]

\* Lines 23-26, then the loop starts on the first endpoint.
FetchStart(task, fs) ==
    LET is_new_device == FilePath(task.host) \notin DOMAIN fs
        noted == IF is_new_device THEN Logged(task, "NewDevice", 0, 0) ELSE task
    IN  [noted EXCEPT !.pc = "request", !.ep = 1]

\* Faulty variant of NextEndpoint: a failed attempt ends the loop.
BreakLoop(task) == [task EXCEPT !.pc = "done"]

\* for endpoint in endpoints: the loop moves to the next endpoint, or the
\* function falls off its end.
NextEndpoint(task) ==
    IF task.ep < Len(endpoints)
    THEN [task EXCEPT !.ep = @ + 1, !.pc = "request"]
    ELSE [task EXCEPT !.pc = "done"]

\* An exception leaves fetch_data.
Raise(task, class) == [task EXCEPT !.pc = "raised", !.exc = class]

\* Faulty variant of Returned: without the return the loop goes on.
ContinueLoop(task) == NextEndpoint(task)

\* Line 44: return after the sink has returned.
Returned(task) == [task EXCEPT !.pc = "done"]

\* Line 37.
IsOk(response) == response.status = 200

\* Lines 38-39 and the handlers of lines 47-50 for response.json(): the
\* success is logged, then the body is parsed.
OnStatusOk(task, port, response, json_class) ==
    LET ok == Logged(task, "Success", port, 0)
    IN  IF IsJson(response.body)
        THEN [ok EXCEPT !.data = JsonLoads(response.body), !.pc = "emit"]
        ELSE IF json_class = "RequestException"
             THEN NextEndpoint(Logged(ok, "Error", port, 0))
             ELSE Raise(ok, json_class)

\* Faulty variant of OnResponse: one handler for every exception of
\* requests, so that a timeout is logged as a generic error.
OnResponseGeneric(task, result, json_class) ==
    LET endpoint == endpoints[task.ep]
        called == [task EXCEPT !.calls = Append(@,
                      [url |-> Url(endpoint, task.host), port |-> endpoint.port,
                       result |-> result])]
    IN  IF result.kind \in {"Timeout", "RequestException"}
        THEN NextEndpoint(Logged(called, "Error", endpoint.port, 0))
        ELSE IF IsOk(result)
        THEN OnStatusOk(called, endpoint.port, result, json_class)
        ELSE NextEndpoint(Logged(called, "Failed", endpoint.port, result.status))

\* Lines 30-50 for one answer of requests.get, up to the call of the sink
\* (pc = "emit" asks for it).
OnResponse(task, result, json_class) ==
    LET endpoint == endpoints[task.ep]
        called == [task EXCEPT !.calls = Append(@,
                      [url |-> Url(endpoint, task.host), port |-> endpoint.port,
                       result |-> result])]
    IN  IF result.kind = "Timeout"
        THEN NextEndpoint(Logged(called, "Timeout", endpoint.port, 0))
        ELSE IF result.kind = "RequestException"
        THEN NextEndpoint(Logged(called, "Error", endpoint.port, 0))
        ELSE IF IsOk(result)
        THEN OnStatusOk(called, endpoint.port, result, json_class)
        ELSE NextEndpoint(Logged(called, "Failed", endpoint.port, result.status))

SinkCall(sink, task) == [sink |-> sink, host |-> task.host, data |-> task.data]

\* display_response: the two prints of lines 73 and 74 write the headline
\* and the body, or a print raises and stdout has what went out before.
display_response(task, limit) ==
    LET called == [task EXCEPT !.emits = Append(@, SinkCall("display_response", task))]
        text == "\n--- Response for " \o task.host \o " ---\n"
                    \o JsonDumps(task.data) \o "\n"
    IN  IF Fails(text, limit)
        THEN Raise([called EXCEPT !.printed = @ \o Prefix(text, limit)], "OSError")
        ELSE Returned([called EXCEPT !.printed = @ \o text])

\* save_response up to open(): the file is open and truncated, or open
\* raised.
save_response_open(task, limit) ==
    LET called == [task EXCEPT !.emits = Append(@, SinkCall("save_response", task))]
    IN  IF limit = NoFailure THEN [called EXCEPT !.pc = "saving"]
        ELSE Raise(called, "OSError")

\* save_response from yaml.dump on: written, closed, logged, and fetch_data
\* returns.
save_response_close(task) == Returned(Logged(task, "Saved", 0, 0))

Finished(task) == task.pc \in {"done", "raised"}

PoolOf(pool) == {t \in 1..Len(tasks) : tasks[t].pool = pool}

\* The thread a task runs on exists: a pool's workers run from submission
\* on (the pools are never smaller than the task lists of this model), the
\* main thread runs fetch_data while it is inside process_ip_input.
CanRun(t) == tasks[t].pool = "main" => mainpc = "single"

Begin(t) ==
    /\ tasks[t].pc = "pending"
    /\ CanRun(t)
    /\ tasks' = [tasks EXCEPT ![t] = FetchStart(tasks[t], files)]
    /\ UNCHANGED <<args, json_error, files, mainpc, exc, mainlog,
                   exit_code, traceback>>

\* requests.get returns or raises, and fetch_data runs on to its next
\* blocking call.
Respond(t, result, limit) ==
    /\ tasks[t].pc = "request"
    /\ result \in Responses(endpoints[tasks[t].ep], tasks[t].host)
    /\ LET after == OnResponse(tasks[t], result, json_error)
       IN  IF after.pc # "emit"
           THEN /\ limit = NoFailure
                /\ tasks' = [tasks EXCEPT ![t] = after]
                /\ UNCHANGED files
           ELSE IF args.output = "file"
           THEN /\ limit \in {NoFailure, 0}
                /\ tasks' = [tasks EXCEPT ![t] = save_response_open(after, limit)]
                /\ files' = IF limit = NoFailure
                            THEN OpenTruncate(files, FilePath(after.host))
                            ELSE files
           ELSE /\ limit \in {NoFailure} \cup PrintLimits
                /\ tasks' = [tasks EXCEPT ![t] = display_response(after, limit)]
                /\ UNCHANGED files
    /\ UNCHANGED <<args, json_error, mainpc, exc, mainlog, exit_code,
                   traceback>>

\* Lines 62-63: yaml.dump and the close of the with block write the text,
\* or the write raises (a full disk, a file size limit) after the part of
\* the text that got through, written over what the file holds.
Save(t, limit) ==
    /\ tasks[t].pc = "saving"
    /\ limit \in {NoFailure} \cup WriteLimits
    /\ LET text == YamlDump(tasks[t].data)
       IN  IF Fails(text, limit)
           THEN /\ files' = WriteAtStart(files, FilePath(tasks[t].host),
                                         Prefix(text, limit))
                /\ tasks' = [tasks EXCEPT ![t] = Raise(tasks[t], "OSError")]
           ELSE /\ files' = WriteAtStart(files, FilePath(tasks[t].host), text)
                /\ tasks' = [tasks EXCEPT ![t] = save_response_close(tasks[t])]
    /\ UNCHANGED <<args, json_error, mainpc, exc, mainlog, exit_code,
                   traceback>>

-----------------------------------------------------------------------------
(* main and process_ip_input: the main thread *)

MainRecord(kind) == [kind |-> kind]

\* An uncaught exception ends the interpreter: traceback, exit status 1.
Uncaught(class) ==
    /\ mainpc' = "exited"
    /\ exit_code' = 1
    /\ traceback' = class

\* Line 154 on: the host-list file comes after --ip_input, when given.
AfterIpInput == IF args.ip_file.given THEN "ip_file" ELSE "exited"

\* Lines 127-135.
Start ==
    /\ mainpc = "start"
    /\ IF ~args.ip_input.given /\ ~args.ip_file.given
       THEN /\ mainpc' = "exited"
            /\ exit_code' = 0
            /\ mainlog' = Append(mainlog, MainRecord("Usage"))
       ELSE /\ mainpc' = IF args.ip_input.given THEN "ip_input" ELSE "ip_file"
            /\ mainlog' = Append(mainlog, MainRecord("Running"))
            /\ UNCHANGED exit_code
    /\ UNCHANGED <<args, json_error, files, tasks, exc, traceback>>

\* The hosts process_ip_input dispatches for a CIDR block (line 108).
NetworkTargets(inp) == [i \in 1..Len(Hosts(inp)) |-> AddrStr(Hosts(inp)[i])]

\* Lines 150-152 and 101-108, 111-112: the input is an address (fetch_data
\* is called in the main thread), a network (one future per host), or
\* neither.
ProcessIpInput ==
    /\ mainpc = "ip_input"
    /\ LET inp == args.ip_input
       IN  IF IsIPv4Address(inp)
           THEN /\ tasks' = Append(tasks, NewTask(AddrStr(AddrInt(inp.octets)), "main"))
                /\ mainpc' = "single"
                /\ UNCHANGED <<mainlog, exit_code>>
           ELSE IF IsIPv4Network(inp)
           THEN /\ tasks' = tasks \o [i \in 1..Len(NetworkTargets(inp)) |->
                                         NewTask(NetworkTargets(inp)[i], "cidr")]
                /\ mainpc' = "cidr_wait"
                /\ UNCHANGED <<mainlog, exit_code>>
           ELSE /\ mainlog' = Append(mainlog, MainRecord("InvalidInput"))
                /\ mainpc' = AfterIpInput
                /\ exit_code' = IF AfterIpInput = "exited" THEN 0 ELSE exit_code
                /\ UNCHANGED tasks
    /\ UNCHANGED <<args, json_error, files, exc, traceback>>

\* Line 103 returns or raises: fetch_data raises no AddressValueError, so
\* whatever it raises leaves process_ip_input and main.
SingleReturn ==
    /\ mainpc = "single"
    /\ \E t \in PoolOf("main") :
          /\ Finished(tasks[t])
          /\ IF tasks[t].pc = "raised"
             THEN Uncaught(tasks[t].exc)
             ELSE /\ mainpc' = AfterIpInput
                  /\ exit_code' = IF AfterIpInput = "exited" THEN 0 ELSE exit_code
                  /\ UNCHANGED traceback
    /\ UNCHANGED <<args, json_error, files, tasks, exc, mainlog>>

WaitPc(pool) == IF pool = "cidr" THEN "cidr_wait" ELSE "file_wait"
ShutdownPc(pool) == IF pool = "cidr" THEN "cidr_shutdown" ELSE "file_shutdown"

\* Lines 109-110 and 158-159: as_completed hands over the finished futures
\* in no fixed order and result() returns None or re-raises the pipeline's
\* exception. Taking a None changes nothing, so the loop is two steps: it
\* meets a future that raised, or it ends with every future done.
Collect(pool, t) ==
    /\ mainpc = WaitPc(pool)
    /\ t \in PoolOf(pool)
    /\ tasks[t].pc = "raised"
    /\ exc' = tasks[t].exc
    /\ mainpc' = ShutdownPc(pool)
    /\ UNCHANGED <<args, json_error, files, tasks, mainlog, exit_code, traceback>>

LoopEnd(pool) ==
    /\ mainpc = WaitPc(pool)
    /\ \A t \in PoolOf(pool) : tasks[t].pc = "done"
    /\ mainpc' = ShutdownPc(pool)
    /\ UNCHANGED <<args, json_error, files, tasks, exc, mainlog, exit_code,
                   traceback>>

\* Faulty variant of PoolIdle: shutdown(wait=False).
NoWait(pool) == TRUE

\* The pool's workers have nothing left to run: shutdown(wait=True) returns.
PoolIdle(pool) == \A t \in PoolOf(pool) : Finished(tasks[t])

\* Lines 107 and 111-112: the with block of process_ip_input is left, and
\* `except ValueError` takes the exception or lets it pass.
CidrShutdown ==
    /\ mainpc = "cidr_shutdown"
    /\ PoolIdle("cidr")
    /\ IF exc = ""
       THEN /\ mainpc' = AfterIpInput
            /\ exit_code' = IF AfterIpInput = "exited" THEN 0 ELSE exit_code
            /\ UNCHANGED <<mainlog, traceback, exc>>
       ELSE IF exc = "ValueError"
       THEN /\ mainlog' = Append(mainlog, MainRecord("InvalidInput"))
            /\ mainpc' = AfterIpInput
            /\ exit_code' = IF AfterIpInput = "exited" THEN 0 ELSE exit_code
            /\ exc' = ""
            /\ UNCHANGED traceback
       ELSE /\ Uncaught(exc)
            /\ UNCHANGED <<mainlog, exc>>
    /\ UNCHANGED <<args, json_error, files, tasks>>

\* Faulty variant of ReadIpFile: a file that cannot be opened is passed over
\* in silence.
ReadIpFileQuiet ==
    /\ mainpc = "ip_file"
    /\ IF args.ip_file.exists
       THEN /\ mainlog' = Append(mainlog, MainRecord("ReadingFile"))
            /\ tasks' = tasks \o [i \in 1..Len(read_ip_file(args.ip_file)) |->
                                     NewTask(read_ip_file(args.ip_file)[i], "file")]
            /\ mainpc' = "file_wait"
            /\ UNCHANGED <<exit_code, traceback>>
       ELSE /\ mainpc' = "exited"
            /\ exit_code' = 0
            /\ UNCHANGED <<mainlog, tasks, traceback>>
    /\ UNCHANGED <<args, json_error, files, exc>>

\* Lines 154-157: the file is read and one future per line is submitted,
\* or open() raises and nothing catches it.
ReadIpFile ==
    /\ mainpc = "ip_file"
    /\ IF args.ip_file.exists
       THEN /\ mainlog' = Append(mainlog, MainRecord("ReadingFile"))
            /\ tasks' = tasks \o [i \in 1..Len(read_ip_file(args.ip_file)) |->
                                     NewTask(read_ip_file(args.ip_file)[i], "file")]
            /\ mainpc' = "file_wait"
            /\ UNCHANGED <<exit_code, traceback>>
       ELSE /\ Uncaught("FileNotFoundError")
            /\ UNCHANGED <<mainlog, tasks>>
    /\ UNCHANGED <<args, json_error, files, exc>>

\* Line 156: the with block of main is left; main returns or the exception
\* leaves it.
FileShutdown ==
    /\ mainpc = "file_shutdown"
    /\ PoolIdle("file")
    /\ IF exc = ""
       THEN /\ mainpc' = "exited"
            /\ exit_code' = 0
            /\ UNCHANGED traceback
       ELSE Uncaught(exc)
    /\ UNCHANGED <<args, json_error, files, tasks, exc, mainlog>>

-----------------------------------------------------------------------------
(* The runs *)

\* Texts of n tokens: a token is a line terminator or a maximal run of other
\* characters, so two runs are never adjacent.
RECURSIVE TextsOfLen(_)
TextsOfLen(n) ==
    IF n = 0 THEN {<<>>}
    ELSE {Append(s, c) : s \in TextsOfLen(n - 1), c \in {NL}}
           \cup {Append(s, "10.0.0.1") :
                    s \in {x \in TextsOfLen(n - 1) : x = <<>> \/ x[Len(x)] = NL}}

FileTexts == UNION {TextsOfLen(n) : n \in 0..MaxFileLen}

IpFiles ==
    {NoFile, [given |-> TRUE, exists |-> FALSE, text |-> <<>>]}
        \cup {[given |-> TRUE, exists |-> TRUE, text |-> s] : s \in FileTexts}

\* The values of --ip_input whose hosts the runs probe: none, an address,
\* a /30 and three invalid texts. The expansion of other blocks is followed
\* up to the dispatch only (ExpandInputs).
IpInputs ==
    {NoInput,
     InputText(<<10, 0, 0, 1>>, NoPrefix),
     InputText(<<10, 0, 0, 0>>, 30),
     InputText(<<10, 0, 0, 256>>, NoPrefix),
     InputText(<<10, 0, 0, 0>>, 33),
     InputText(<<10, 0, 0>>, 30)}

\* The hosts a command line dispatches when nothing fails.
InputTargets(inp) ==
    IF ~inp.given THEN <<>>
    ELSE IF IsIPv4Address(inp) THEN <<AddrStr(AddrInt(inp.octets))>>
    ELSE IF IsIPv4Network(inp) THEN NetworkTargets(inp)
    ELSE <<>>

FileTargets(file) == IF file.given /\ file.exists THEN read_ip_file(file) ELSE <<>>

\* The working directory holds the record an earlier run saved for
\* 10.0.0.2 and none for any other host.
OldRecord == YamlDump(<< <<"serial", "f5-abcd">>, <<"hw", "old">> >>)

Init ==
    /\ args \in {a \in [ip_input : IpInputs, ip_file : IpFiles, output : {"file", "stdout"}] :
                   Len(InputTargets(a.ip_input)) + Len(FileTargets(a.ip_file)) <= MaxTargets}
    /\ json_error \in {"RequestException", "ValueError"}
    /\ files = [p \in {FilePath("10.0.0.2")} |-> OldRecord]
    /\ tasks = <<>>
    /\ mainpc = "start"
    /\ exc = ""
    /\ mainlog = <<>>
    /\ exit_code = -1
    /\ traceback = ""

Next ==
    \/ Start
    \/ ProcessIpInput
    \/ SingleReturn
    \/ \E pool \in {"cidr", "file"} : \E t \in 1..Len(tasks) : Collect(pool, t)
    \/ \E pool \in {"cidr", "file"} : LoopEnd(pool)
    \/ CidrShutdown
    \/ ReadIpFile
    \/ FileShutdown
    \/ \E t \in 1..Len(tasks) : Begin(t)
    \/ \E t \in 1..Len(tasks) : \E result \in AnyResult :
          \E limit \in IoOutcomes : Respond(t, result, limit)
    \/ \E t \in 1..Len(tasks) : \E limit \in IoOutcomes : Save(t, limit)

Spec == Init /\ [][Next]_vars

\* Runs in which the process is not stopped for ever: as long as a thread
\* can take a step, some step is taken. A call of requests.get is such a
\* step, it returns or raises within its timeout (line 35); the pools of
\* lines 107 and 156 have more workers than this model has hosts.
FairSpec == Spec /\ WF_vars(Next)

\* The expansion of --ip_input alone, over more blocks than the runs above
\* can afford to probe: the run is followed up to the dispatch of the hosts.
ExpandInputs ==
    {InputText(<<10, 0, 0, d>>, p) : d \in {0, 1, 77, 255}, p \in 27..32}

InitExpand ==
    /\ args \in [ip_input : ExpandInputs, ip_file : {NoFile}, output : {"file", "stdout"}]
    /\ json_error \in {"RequestException", "ValueError"}
    /\ files = [p \in {FilePath("10.0.0.2")} |-> OldRecord]
    /\ tasks = <<>>
    /\ mainpc = "start"
    /\ exc = ""
    /\ mainlog = <<>>
    /\ exit_code = -1
    /\ traceback = ""

NextExpand == Start \/ ProcessIpInput

SpecExpand == InitExpand /\ [][NextExpand]_vars

-----------------------------------------------------------------------------
(* Vocabulary of the properties *)

Range(seq) == {seq[i] : i \in DOMAIN seq}

TaskIds == 1..Len(tasks)

\* A Success in the sense of the specification: HTTP 200 with a body that
\* parses as JSON.
Succeeded(call) ==
    /\ call.result.kind = "response"
    /\ call.result.status = 200
    /\ call.result.body \in {HealthBody, HardwareBody}

\* HTTP 200 with a body that does not parse.
BadBody(call) ==
    /\ call.result.kind = "response"
    /\ call.result.status = 200
    /\ call.result.body = HtmlBody

\* A non-200 status, a timeout or a transport error.
PlainFailure(call) ==
    \/ call.result.kind \in {"Timeout", "RequestException"}
    \/ call.result.kind = "response" /\ call.result.status # 200

\* Sink invocations of the run for one host identifier.
Emissions(h) ==
    Cardinality({te \in TaskIds \X (1..Len(endpoints)) :
                   /\ tasks[te[1]].host = h
                   /\ te[2] <= Len(tasks[te[1]].emits)})

HostSucceeded(h) ==
    \E t \in TaskIds : tasks[t].host = h /\ \E c \in Range(tasks[t].calls) : Succeeded(c)

PipelineErrors == {"OSError", "ValueError"}

\* A pipeline that has started and has not ended.
Alive(task) == task.pc \in {"request", "saving"}

\* The log record the specification asks for a failed attempt.
FailureRecord(h, call) ==
    IF call.result.kind = "Timeout" THEN LogRecord("Timeout", h, call.port, 0)
    ELSE IF call.result.kind = "RequestException" THEN LogRecord("Error", h, call.port, 0)
    ELSE LogRecord("Failed", h, call.port, call.result.status)

IsOutcome(record) == record.kind # "NewDevice"

\* The persisted record of a host is as it was when the run began: absent,
\* or with the content it had (no write of the run produces that content).
Untouched(h) ==
    FilePath(h) \notin DOMAIN files \/ files[FilePath(h)] = OldRecord

InputStageTasks == PoolOf("main") \cup PoolOf("cidr")

\* The pipeline was probed to its end and, if an endpoint succeeded, the
\* sink was invoked.
Processed(task) ==
    /\ task.pc \in {"done", "raised"}
    /\ Len(task.calls) >= 1
    /\ (\E c \in Range(task.calls) : Succeeded(c)) => Len(task.emits) = 1

-----------------------------------------------------------------------------
(* C1 *)

\* C1: for every host identifier the result sink is invoked at most once in
\* a run, whatever the combination of --ip_input and --ip_file: once the
\* run is over, once if some endpoint succeeded for the host and not at all
\* otherwise.
C1_OneEmissionPerHost ==
    \A t \in TaskIds :
        /\ Emissions(tasks[t].host) <= 1
        /\ mainpc = "exited" =>
              Emissions(tasks[t].host) = IF HostSucceeded(tasks[t].host) THEN 1 ELSE 0

-----------------------------------------------------------------------------
(* C2 *)

\* C2: an exception that fetch_data does not classify never leaves the
\* coordinator: the process does not end with it as an uncaught exception,
\* and a host-list file given beside --ip_input is still read.
C2_PipelineErrorsContained ==
    (mainpc = "exited" /\ \E t \in TaskIds : tasks[t].pc = "raised") =>
        /\ traceback \notin PipelineErrors
        /\ (args.ip_file.given /\ args.ip_file.exists) =>
              MainRecord("ReadingFile") \in Range(mainlog)

-----------------------------------------------------------------------------
(* C3 *)

LastSuccessPort(log) ==
    LET at == {i \in DOMAIN log : log[i].kind = "Success"}
    IN  IF at = {} THEN 0
        ELSE log[CHOOSE i \in at : \A j \in at : j <= i].port

\* C3: in one pipeline the first endpoint, in list order, that answers
\* HTTP 200 with a JSON body ends the iteration: it is the last endpoint
\* the pipeline calls, the sink is invoked exactly once, with the payload
\* of that answer, and the success logged last names that endpoint's port.
C3_FirstSuccessWins ==
    \A t \in TaskIds :
        \A i \in DOMAIN tasks[t].calls :
            Succeeded(tasks[t].calls[i]) =>
                /\ i = Len(tasks[t].calls)
                /\ tasks[t].pc # "request"
                /\ \A j \in 1..(i - 1) : ~Succeeded(tasks[t].calls[j])
                /\ Len(tasks[t].emits) = 1
                /\ tasks[t].emits[1].host = tasks[t].host
                /\ tasks[t].emits[1].data =
                      (IF tasks[t].calls[i].port = 8888
                       THEN << <<"health", "ok">>, <<"state", "up">> >>
                       ELSE << <<"hw", "ok">> >>)
                /\ LastSuccessPort(tasks[t].log) = tasks[t].calls[i].port

\* 8888 answers HTTP 404, 443 answers HTTP 200 with {"hw": "ok"}: one
\* emission, of {"hw": "ok"}, and the pipeline has returned.
C3_Witness ==
    \E t \in TaskIds :
        /\ tasks[t].pc = "done"
        /\ Len(tasks[t].calls) = 2
        /\ tasks[t].calls[1].port = 8888
        /\ tasks[t].calls[1].result = HttpResponse(404, HtmlBody)
        /\ tasks[t].calls[2].port = 443
        /\ tasks[t].calls[2].result = HttpResponse(200, HardwareBody)
        /\ Len(tasks[t].emits) = 1
        /\ tasks[t].emits[1].data = << <<"hw", "ok">> >>

-----------------------------------------------------------------------------
(* C4 *)

\* C4: a pipeline tries its endpoints one after the other in declared
\* order: its k-th call is on the k-th endpoint (8888 before 443), and the
\* request in flight is on the endpoint after the calls that have come
\* back, none of which was a Success.
C4_SequentialDeclaredOrder ==
    \A t \in TaskIds :
        /\ Len(tasks[t].calls) <= 2
        /\ \A i \in DOMAIN tasks[t].calls :
              /\ tasks[t].calls[i].port = (IF i = 1 THEN 8888 ELSE 443)
              /\ tasks[t].calls[i].url = Url(endpoints[i], tasks[t].host)
        /\ tasks[t].pc = "request" =>
              /\ tasks[t].ep = Len(tasks[t].calls) + 1
              /\ \A c \in Range(tasks[t].calls) : ~Succeeded(c)

\* Two pipelines of different hosts are under way, one waiting on 8888 and
\* the other, its 8888 attempt over, on 443.
C4_Witness ==
    \E t, u \in TaskIds :
        /\ tasks[t].host # tasks[u].host
        /\ tasks[t].pc = "request" /\ tasks[t].ep = 1
        /\ tasks[u].pc = "request" /\ tasks[u].ep = 2
        /\ Len(tasks[u].calls) = 1

-----------------------------------------------------------------------------
(* C5 *)

\* C5: an HTTP 200 answer whose body does not parse is a failure of that
\* endpoint: no Success is logged for it, nothing is emitted for it, an
\* error naming host and port is logged, and the pipeline goes on instead
\* of raising.
C5_BadBodyIsFailure ==
    \A t \in TaskIds :
        \A i \in DOMAIN tasks[t].calls :
            BadBody(tasks[t].calls[i]) =>
                /\ LogRecord("Success", tasks[t].host, tasks[t].calls[i].port, 0)
                      \notin Range(tasks[t].log)
                /\ LogRecord("Error", tasks[t].host, tasks[t].calls[i].port, 0)
                      \in Range(tasks[t].log)
                /\ tasks[t].exc # "ValueError"
                /\ \A e \in Range(tasks[t].emits) : e.data # <<>>

-----------------------------------------------------------------------------
(* C6 *)

AllFailed(task) ==
    /\ task.pc = "done"
    /\ \A c \in Range(task.calls) : PlainFailure(c)

\* C6: when every attempt of a pipeline failed with a non-200 status, a
\* timeout or a transport error, each endpoint was attempted exactly once,
\* in order, exactly one failure record per attempt was logged, nothing was
\* emitted, and, when that is so for every pipeline of the host, the host's
\* persisted record was neither created nor changed.
C6_AllEndpointsFail ==
    \A t \in TaskIds :
        AllFailed(tasks[t]) =>
            /\ Len(tasks[t].calls) = 2
            /\ tasks[t].calls[1].port = 8888
            /\ tasks[t].calls[2].port = 443
            /\ SelectSeq(tasks[t].log, IsOutcome) =
                  [i \in 1..2 |-> FailureRecord(tasks[t].host, tasks[t].calls[i])]
            /\ tasks[t].emits = <<>>
            /\ tasks[t].printed = ""
            /\ (\A u \in TaskIds : tasks[u].host = tasks[t].host => AllFailed(tasks[u]))
                  => Untouched(tasks[t].host)

\* Both endpoints timed out: two Timeout records, no emission.
C6_Witness ==
    \E t \in TaskIds :
        /\ tasks[t].pc = "done"
        /\ Len(tasks[t].calls) = 2
        /\ \A i \in 1..2 : tasks[t].calls[i].result = TimeoutRaised
        /\ Len(SelectSeq(tasks[t].log, LAMBDA r : r.kind = "Timeout")) = 2
        /\ tasks[t].emits = <<>>
        /\ args.output = "file"

-----------------------------------------------------------------------------
(* C7 *)

\* The main thread is past the with block of the pool.
LeftPool(pool) ==
    IF pool = "cidr"
    THEN mainpc \in {"ip_file", "file_wait", "file_shutdown", "exited"}
    ELSE mainpc = "exited"

\* C7: once the main thread has left a pool, every host submitted to the
\* pool has been probed to the end of its pipeline and has invoked the sink
\* if one of its endpoints succeeded, also when a sibling raised.
C7_SiblingsRunToCompletion ==
    \A pool \in {"cidr", "file"} :
        LeftPool(pool) => \A t \in PoolOf(pool) : Processed(tasks[t])

\* A pipeline raised OSError out of save_response, the exception ended the
\* run, and a sibling of the same pool has saved its result.
C7_Witness ==
    /\ mainpc = "exited"
    /\ traceback = "OSError"
    /\ \E t, u \in TaskIds :
          /\ t # u
          /\ tasks[t].pool = tasks[u].pool
          /\ tasks[t].pc = "raised"
          /\ tasks[t].exc = "OSError"
          /\ tasks[u].pc = "done"
          /\ Len(tasks[u].emits) = 1
          /\ tasks[u].emits[1].sink = "save_response"
          /\ LogRecord("Saved", tasks[u].host, 0, 0) \in Range(tasks[u].log)

-----------------------------------------------------------------------------
(* C8 *)

MissingFile == args.ip_file.given /\ ~args.ip_file.exists

\* C8: when --ip_file cannot be opened, no host of the file is probed;
\* the run ends with a reported error (the file's, unless an --ip_input
\* pipeline had ended the run before the file was opened); every host
\* expanded from --ip_input has been processed by then, and without
\* --ip_input no host is processed at all.
C8_MissingFileAbortsThatSourceOnly ==
    MissingFile =>
        /\ PoolOf("file") = {}
        /\ MainRecord("ReadingFile") \notin Range(mainlog)
        /\ ~args.ip_input.given => tasks = <<>>
        /\ mainpc = "exited" =>
              /\ exit_code = 1
              /\ \/ traceback = "FileNotFoundError"
                 \/ /\ traceback \in PipelineErrors
                    /\ \E t \in InputStageTasks : tasks[t].pc = "raised"
              /\ [t \in TaskIds |-> tasks[t].host] = InputTargets(args.ip_input)
              /\ \A t \in TaskIds : Processed(tasks[t])

\* --ip_input 10.0.0.0/30 with a missing file: both hosts were emitted, then
\* the run ended on the file's error.
C8_Witness ==
    /\ MissingFile
    /\ mainpc = "exited"
    /\ traceback = "FileNotFoundError"
    /\ Len(tasks) = 2
    /\ \A t \in TaskIds : tasks[t].pc = "done" /\ Len(tasks[t].emits) = 1

-----------------------------------------------------------------------------
(* C9 *)

\* "10.0.0.256", "10.0.0.0/33", "10.0.0/30"
InvalidInputs ==
    {InputText(<<10, 0, 0, 256>>, NoPrefix), InputText(<<10, 0, 0, 0>>, 33),
     InputText(<<10, 0, 0>>, 30)}

\* C9: when --ip_input is neither an IPv4 address nor a CIDR block, the
\* invalid input is logged once, no host is probed from it, the process
\* does not end on it, and the hosts of --ip_file are all processed.
C9_InvalidInputSkipsThatSourceOnly ==
    args.ip_input \in InvalidInputs =>
        /\ InputStageTasks = {}
        /\ mainpc \notin {"start", "ip_input"} =>
              Len(SelectSeq(mainlog, LAMBDA r : r.kind = "InvalidInput")) = 1
        /\ traceback # "" => /\ args.ip_file.given
                             /\ mainpc = "exited"
                             /\ \/ traceback = "FileNotFoundError" /\ ~args.ip_file.exists
                                \/ \E t \in PoolOf("file") : tasks[t].exc = traceback
        /\ (mainpc = "exited" /\ args.ip_file.given /\ args.ip_file.exists) =>
              /\ [t \in TaskIds |-> tasks[t].host] = read_ip_file(args.ip_file)
              /\ \A t \in TaskIds : tasks[t].pool = "file" /\ Processed(tasks[t])

\* An invalid --ip_input beside a host list: the invalid input was logged
\* and the file's host was probed and emitted.
C9_Witness ==
    /\ args.ip_input \in InvalidInputs
    /\ mainpc = "exited"
    /\ exit_code = 0
    /\ MainRecord("InvalidInput") \in Range(mainlog)
    /\ \E t \in PoolOf("file") : tasks[t].pc = "done" /\ Len(tasks[t].emits) = 1

-----------------------------------------------------------------------------
(* C10 *)

\* C10: in file output mode two pipelines of one pool that are under way at
\* the same time never have the same persisted file as their target.
C10_LiveTasksHaveDistinctFiles ==
    args.output = "file" =>
        \A t, u \in TaskIds :
            (/\ t # u
             /\ tasks[t].pool = tasks[u].pool
             /\ Alive(tasks[t])
             /\ Alive(tasks[u]))
                => FilePath(tasks[t].host) # FilePath(tasks[u].host)

-----------------------------------------------------------------------------
(* C11 *)

\* The hosts dispatched so far, in dispatch order.
Dispatched == [t \in TaskIds |-> tasks[t].host]

NoDuplicates(seq) == \A i, j \in DOMAIN seq : seq[i] = seq[j] => i = j

CidrDispatched ==
    /\ args.ip_input.given
    /\ args.ip_input.prefix \in 0..32
    /\ mainpc = "cidr_wait"

\* C11 as stated: for every valid CIDR input, /31 and /32 and inputs with
\* host bits set included, the dispatched hosts contain neither the
\* block's network address nor its broadcast address, and no duplicates.
C11_NoNetworkNoBroadcast ==
    CidrDispatched =>
        /\ AddrStr(NetworkAddress(args.ip_input)) \notin Range(Dispatched)
        /\ AddrStr(BroadcastAddress(args.ip_input)) \notin Range(Dispatched)
        /\ NoDuplicates(Dispatched)

\* C11 as amended: no duplicates for every prefix length; up to /30 the
\* dispatched hosts are the addresses strictly between the network and the
\* broadcast address; a /31 dispatches its two addresses and a /32 its one.
C11_UsableHosts ==
    CidrDispatched =>
        LET inp == args.ip_input
            net == NetworkAddress(inp)
            bc == BroadcastAddress(inp)
        IN  /\ NoDuplicates(Dispatched)
            /\ inp.prefix <= 30 =>
                  /\ AddrStr(net) \notin Range(Dispatched)
                  /\ AddrStr(bc) \notin Range(Dispatched)
                  /\ Range(Dispatched) = {AddrStr(a) : a \in (net + 1)..(bc - 1)}
            /\ inp.prefix = 31 => Dispatched = <<AddrStr(net), AddrStr(bc)>>
            /\ inp.prefix = 32 => Dispatched = <<AddrStr(AddrInt(inp.octets))>>

\* 10.0.0.77/30, host bits set: the block is 10.0.0.76/30 and its hosts are
\* .77 and .78.
C11_Witness ==
    /\ args.ip_input = InputText(<<10, 0, 0, 77>>, 30)
    /\ mainpc = "cidr_wait"
    /\ Dispatched = <<"10.0.0.77", "10.0.0.78">>

-----------------------------------------------------------------------------
(* C12 *)

IsFileTask(task) == task.pool = "file"

NonEmpty(line) == line # ""

\* The hosts dispatched from --ip_file, in dispatch order.
FileDispatched ==
    LET sel == SelectSeq(tasks, IsFileTask)
    IN  [i \in DOMAIN sel |-> sel[i].host]

\* C12: once the file has been read, the hosts dispatched from it are its
\* non-empty lines, in file order and verbatim; an empty line is no host and
\* is never probed.
C12_NonEmptyLinesOnly ==
    MainRecord("ReadingFile") \in Range(mainlog) =>
        /\ FileDispatched = SelectSeq(SplitLines(args.ip_file.text), NonEmpty)
        /\ \A t \in PoolOf("file") : tasks[t].host # ""

-----------------------------------------------------------------------------
(* C14 *)

\* C14: no host identifier is dispatched more than once in a run, neither
\* for repeated lines of the file nor for a host that both sources name.
C14_NoHostDispatchedTwice == NoDuplicates(Dispatched)

-----------------------------------------------------------------------------
(* C15 *)

\* C15: a run that ends, ends with exit status 0: the help path, and runs
\* with failed endpoints, unparseable bodies or failed sink writes; only
\* a startup error such as an unreadable host-list file gives another
\* status.
C15_ExitZeroPastStartup ==
    mainpc = "exited" =>
        \/ exit_code = 0
        \/ MissingFile /\ traceback = "FileNotFoundError"

-----------------------------------------------------------------------------
(* C16 *)

\* A pipeline is between open() and close() of the file.
Writing(path) ==
    \E t \in TaskIds : tasks[t].pc = "saving" /\ FilePath(tasks[t].host) = path

\* The payloads of the writes of the file that have completed.
WrittenPayloads(path) ==
    {tasks[t].data : t \in {u \in TaskIds :
        /\ FilePath(tasks[u].host) = path
        /\ tasks[u].pc = "done"
        /\ \E e \in Range(tasks[u].emits) : e.sink = "save_response"}}

\* C16: when writes of a host's file have completed and none is under way,
\* the file holds the serialization of one completed write's payload (the
\* latest) and nothing of any other: a write replaces, it never merges.
C16_FileHoldsOnePayload ==
    \A t \in TaskIds :
        LET path == FilePath(tasks[t].host)
        IN  (WrittenPayloads(path) # {} /\ ~Writing(path)) =>
                files[path] \in {YamlDump(d) : d \in WrittenPayloads(path)}

-----------------------------------------------------------------------------
(* C13 *)

\* How far the main thread is from the end of main.
MainRank ==
    CASE mainpc = "start" -> 7
      [] mainpc = "ip_input" -> 6
      [] mainpc \in {"single", "cidr_wait"} -> 5
      [] mainpc = "cidr_shutdown" -> 4
      [] mainpc = "ip_file" -> 3
      [] mainpc = "file_wait" -> 2
      [] mainpc = "file_shutdown" -> 1
      [] OTHER -> 0

\* The most steps a pipeline has left: its start, a call per endpoint that
\* is left, the write.
TaskRank(task) ==
    CASE task.pc = "pending" -> Len(endpoints) + 3
      [] task.pc = "request" -> Len(endpoints) - task.ep + 2
      [] task.pc = "saving" -> 1
      [] OTHER -> 0

RECURSIVE RankSum(_)
RankSum(seq) == IF seq = <<>> THEN 0 ELSE TaskRank(Head(seq)) + RankSum(Tail(seq))

RunEnded == mainpc = "exited" /\ \A t \in TaskIds : Finished(tasks[t])

\* C13: when every HTTP call returns or times out, every dispatched host's
\* pipeline ends, after at most one attempt per endpoint, and the run ends:
\* a run that has not ended can take a step, and every step brings the
\* main thread nearer to its end or, the main thread staying, the
\* pipelines nearer to theirs, so that the runs of FairSpec all end. The run
\* never ends while a pipeline is pending or running, also when a pipeline
\* of the pool raised.
C13_CoordinatorWaitsForAll ==
    /\ [](RunEnded \/ ENABLED Next)
    /\ [][\/ MainRank' < MainRank
          \/ MainRank' = MainRank /\ RankSum(tasks') < RankSum(tasks)]_vars
    /\ [](\A t \in TaskIds : Len(tasks[t].calls) <= Len(endpoints))
    /\ [](mainpc = "exited" => \A t \in TaskIds : Finished(tasks[t]))

\* The run has ended on the ValueError of one pipeline of the file's pool,
\* and a sibling that was dispatched with it went through both endpoints.
C13_Witness ==
    /\ mainpc = "exited"
    /\ traceback = "ValueError"
    /\ \E t, u \in PoolOf("file") :
          /\ tasks[t].exc = "ValueError"
          /\ Finished(tasks[u])
          /\ Len(tasks[u].calls) = Len(endpoints)

-----------------------------------------------------------------------------
(* C17 *)

\* The records a pipeline logged for the endpoint of one of its calls.
RecordsFor(task, call) == SelectSeq(task.log, LAMBDA r : r.port = call.port)

\* After the i-th call the pipeline went on: to the next endpoint, or to
\* its end after the last one.
WentOn(task, i) ==
    IF i < Len(endpoints)
    THEN Len(task.calls) > i \/ (task.pc = "request" /\ task.ep = i + 1)
    ELSE task.pc = "done"

\* C17: an attempt that ended with a non-200 status, a timeout or another
\* transport failure has exactly one log record, with the host and the
\* port, of the kind of the failure (the status for a non-200 answer,
\* Timeout for a timeout, never the generic error), and the pipeline went
\* on to the next endpoint.
C17_OneOutcomePerFailedAttempt ==
    \A t \in TaskIds : \A i \in DOMAIN tasks[t].calls :
        PlainFailure(tasks[t].calls[i]) =>
            /\ RecordsFor(tasks[t], tasks[t].calls[i])
                  = <<FailureRecord(tasks[t].host, tasks[t].calls[i])>>
            /\ WentOn(tasks[t], i)

\* A pipeline timed out on the first endpoint and got a 404 from the
\* second.
C17_Witness ==
    \E t \in TaskIds :
        /\ tasks[t].pc = "done"
        /\ Len(tasks[t].calls) = 2
        /\ tasks[t].calls[1].result = TimeoutRaised
        /\ tasks[t].calls[2].result = HttpResponse(404, HtmlBody)
        /\ LogRecord("Timeout", tasks[t].host, tasks[t].calls[1].port, 0)
              \in Range(tasks[t].log)
        /\ LogRecord("Failed", tasks[t].host, tasks[t].calls[2].port, 404)
              \in Range(tasks[t].log)

-----------------------------------------------------------------------------
(* C18 *)

NewDeviceRecord(h) == LogRecord("NewDevice", h, 0, 0)

\* C18: the notice is logged when the pipeline starts, before any attempt,
\* exactly when the host has no persisted record at that moment; it is
\* logged nowhere else, and but for the notice the pipeline starts in the
\* same state, on the first endpoint, either way.
C18_NewDeviceNotice ==
    /\ [](\A t \in TaskIds : \A i \in DOMAIN tasks[t].log :
             tasks[t].log[i].kind = "NewDevice" => i = 1)
    /\ [][\A t \in TaskIds :
             (tasks[t].pc = "pending" /\ tasks'[t].pc # "pending") =>
                 /\ tasks'[t].log =
                       IF FilePath(tasks[t].host) \in DOMAIN files
                       THEN <<>>
                       ELSE <<NewDeviceRecord(tasks[t].host)>>
                 /\ [tasks'[t] EXCEPT !.log = <<>>]
                       = [tasks[t] EXCEPT !.pc = "request", !.ep = 1]]_vars

\* Two pipelines have ended after the same number of calls and emissions,
\* one for a host without a record, with the notice, and one for the host
\* whose record was there, without it.
C18_Witness ==
    \E t, u \in TaskIds :
        /\ tasks[t].pc = "done"
        /\ tasks[u].pc = "done"
        /\ tasks[t].log # <<>>
        /\ tasks[t].log[1] = NewDeviceRecord(tasks[t].host)
        /\ tasks[u].host = "10.0.0.2"
        /\ NewDeviceRecord("10.0.0.2") \notin Range(tasks[u].log)
        /\ Len(tasks[t].calls) = Len(tasks[u].calls)
        /\ Len(tasks[t].emits) = 1
        /\ Len(tasks[u].emits) = 1

-----------------------------------------------------------------------------
(* C19 *)

\* The main thread has come to the host-list file.
FileStageBegun ==
    \/ mainpc \in {"ip_file", "file_wait", "file_shutdown"}
    \/ PoolOf("file") # {}
    \/ MainRecord("ReadingFile") \in Range(mainlog)

\* C19: with both sources the stages are ordered: when the file is read,
\* and whenever a host of the file is dispatched, every pipeline of
\* --ip_input has ended; no pipeline of one source runs beside a pipeline
\* of the other.
C19_StagesInOrder ==
    /\ FileStageBegun => \A t \in InputStageTasks : Finished(tasks[t])
    /\ \A t \in InputStageTasks : \A u \in PoolOf("file") :
          ~(Alive(tasks[t]) /\ Alive(tasks[u]))

\* Both sources gave hosts; the file's pipeline runs and the input's have
\* ended.
C19_Witness ==
    /\ mainpc = "file_wait"
    /\ InputStageTasks # {}
    /\ \A t \in InputStageTasks : Finished(tasks[t])
    /\ \E u \in PoolOf("file") : Alive(tasks[u])

-----------------------------------------------------------------------------
(* C20 *)

\* C20: "Invalid IP or IP range provided." is logged only for an input that
\* is neither an address nor a CIDR block, and never in a run of
\* process_ip_input that dispatched a pipeline, whatever the pipeline
\* raised.
C20_InvalidInputLoggedForInvalidInputOnly ==
    MainRecord("InvalidInput") \in Range(mainlog) =>
        /\ ~IsIPv4Address(args.ip_input)
        /\ ~IsIPv4Network(args.ip_input)
        /\ InputStageTasks = {}

====
